---- MODULE Spec2Model ----
(***************************************************************************)
(* fmtsize: human-readable formatting of byte counts (src/lib.rs).         *)
(*                                                                         *)
(* A u64 is kept as its binary numeral: a sequence of bits, most           *)
(* significant first, without leading zeros (0 is the empty sequence), so  *)
(* that the whole range 0 .. 2^64-1 is available although TLC's integers   *)
(* are 32 bits wide.  An f32 is kept as the exact dyadic rational it       *)
(* denotes, [m |-> mantissa, e |-> exponent] standing for m * 2^e with m   *)
(* odd (or m = 0, e = 0).  A string is a sequence of one-character         *)
(* strings.                                                                *)
(***************************************************************************)
EXTENDS Integers, Sequences, FiniteSets

VARIABLES
    live,   \* TRUE while a ByteSizeFormatter value exists
    size,   \* ByteSizeFormatter.size (u64 as bits)
    fmt,    \* ByteSizeFormatter.fmt: "Conventional" or "Decimal"
    outs    \* the strings returned by the to_string() calls on it so far

vars == <<live, size, fmt, outs>>

----------------------------------------------------------------------------
(* Bounds of the model *)

\* each threshold T contributes the sizes T-Delta .. T+Delta
Delta == 2
\* the sizes 0 .. MaxSmall are all included
MaxSmall == 12
\* how many times one formatter is rendered
MaxRenders == 2

----------------------------------------------------------------------------
(* u64 values as binary numerals *)

RECURSIVE Pow2(_)
Pow2(k) == IF k = 0 THEN 1 ELSE 2 * Pow2(k - 1)

RECURSIVE Bits(_)
\* the numeral of an integer 0 <= n < 2^31
Bits(n) == IF n = 0 THEN <<>> ELSE Append(Bits(n \div 2), n % 2)

RECURSIVE ToInt(_)
\* the integer of a numeral of at most 31 bits
ToInt(b) == IF b = <<>> THEN 0
            ELSE 2 * ToInt(SubSeq(b, 1, Len(b) - 1)) + b[Len(b)]

Zeros(k) == [i \in 1..k |-> 0]
Ones(k) == [i \in 1..k |-> 1]

\* the numeral of n as exactly k bits (n < 2^k)
Pad(n, k) == Zeros(k - Len(Bits(n))) \o Bits(n)

\* hi * 2^k + lo, for lo < 2^k
Join(hi, lo, k) == Bits(hi) \o Pad(lo, k)

\* u64 comparison  b < t  against an integer 0 <= t < 2^31
Lt(b, t) == Len(b) <= 31 /\ ToInt(b) < t

----------------------------------------------------------------------------
(* mod conventional, mod decimal *)

conventional_KILOBYTE == 1024
conventional_MEGABYTE == 1048576
conventional_GIGABYTE == 1073741824

decimal_KILOBYTE == 1000
decimal_MEGABYTE == 1000000
decimal_GIGABYTE == 1000000000

Strategies == {"Conventional", "Decimal"}

----------------------------------------------------------------------------
(* impl Format for Conventional, impl Format for Decimal *)

\* a variant with a plain-bytes tier below one kilobyte
Conventional_divisor_bytes(s) ==
    IF Lt(s, conventional_KILOBYTE) THEN 1
    ELSE IF Lt(s, conventional_MEGABYTE) THEN conventional_KILOBYTE
    ELSE IF Lt(s, conventional_GIGABYTE) THEN conventional_MEGABYTE
    ELSE conventional_GIGABYTE

\* a variant with closed upper boundaries (<= for <)
Conventional_divisor_le(s) ==
    IF Lt(s, conventional_MEGABYTE + 1) THEN conventional_KILOBYTE
    ELSE IF Lt(s, conventional_GIGABYTE + 1) THEN conventional_MEGABYTE
    ELSE conventional_GIGABYTE

Conventional_divisor(s) ==
    IF Lt(s, conventional_MEGABYTE) THEN conventional_KILOBYTE
    ELSE IF Lt(s, conventional_GIGABYTE) THEN conventional_MEGABYTE
    ELSE conventional_GIGABYTE

Conventional_name(s) ==
    IF Lt(s, conventional_MEGABYTE) THEN "KB"
    ELSE IF Lt(s, conventional_GIGABYTE) THEN "MB"
    ELSE "GB"

\* a variant that reads the other module's constants
Decimal_divisor_binary(s) ==
    IF Lt(s, conventional_MEGABYTE) THEN conventional_KILOBYTE
    ELSE IF Lt(s, conventional_GIGABYTE) THEN conventional_MEGABYTE
    ELSE conventional_GIGABYTE

Decimal_divisor(s) ==
    IF Lt(s, decimal_MEGABYTE) THEN decimal_KILOBYTE
    ELSE IF Lt(s, decimal_GIGABYTE) THEN decimal_MEGABYTE
    ELSE decimal_GIGABYTE

\* a variant that compares against the decimal thresholds
Decimal_name_decimal(s) ==
    IF Lt(s, decimal_MEGABYTE) THEN "KB"
    ELSE IF Lt(s, decimal_GIGABYTE) THEN "MB"
    ELSE "GB"

\* Decimal::name says `use conventional::*`: it compares against the
\* binary thresholds.
Decimal_name(s) ==
    IF Lt(s, conventional_MEGABYTE) THEN "KB"
    ELSE IF Lt(s, conventional_GIGABYTE) THEN "MB"
    ELSE "GB"

\* static dispatch on the type parameter F: Format
divisor(F, s) == IF F = "Conventional" THEN Conventional_divisor(s)
                 ELSE Decimal_divisor(s)

name(F, s) == IF F = "Conventional" THEN Conventional_name(s)
              ELSE Decimal_name(s)

----------------------------------------------------------------------------
(* f32 arithmetic: `as f32` and `/` of Display::fmt *)

\* significand width of an f32
MantBits == 24

RECURSIVE Canon(_, _)
\* the dyadic m * 2^e with its mantissa made odd
Canon(m, e) == IF m = 0 THEN [m |-> 0, e |-> 0]
               ELSE IF m % 2 = 0 THEN Canon(m \div 2, e + 1)
               ELSE [m |-> m, e |-> e]

\* u64 as f32: round to nearest, ties to even, on MantBits significant bits
AsF32(b) ==
    IF Len(b) <= MantBits THEN Canon(ToInt(b), 0)
    ELSE LET m0     == ToInt(SubSeq(b, 1, MantBits))
             guard  == b[MantBits + 1]
             sticky == \E i \in (MantBits + 2)..Len(b) : b[i] = 1
             up     == guard = 1 /\ (sticky \/ m0 % 2 = 1)
         IN  Canon(IF up THEN m0 + 1 ELSE m0, Len(b) - MantBits)

RECURSIVE DivBits(_, _, _, _)
\* long division: quotient bits are produced until the quotient q holds
\* MantBits + 1 bits (one guard bit); r is the remainder, d the divisor
\* mantissa, e the exponent of the last quotient bit
DivBits(q, r, d, e) ==
    IF q >= Pow2(MantBits) THEN [q |-> q, r |-> r, e |-> e]
    ELSE DivBits(2 * q + (IF 2 * r >= d THEN 1 ELSE 0),
                 IF 2 * r >= d THEN 2 * r - d ELSE 2 * r, d, e - 1)

\* f32 division a / b (b > 0): the exact quotient rounded to nearest, ties
\* to even.  No quotient of this program is subnormal, infinite or NaN.
F32Div(a, b) ==
    IF a.m = 0 THEN [m |-> 0, e |-> 0]
    ELSE LET x  == DivBits(a.m \div b.m, a.m % b.m, b.m, a.e - b.e)
             m0 == x.q \div 2
             up == x.q % 2 = 1 /\ (x.r # 0 \/ m0 % 2 = 1)
         IN  Canon(IF up THEN m0 + 1 ELSE m0, x.e + 1)

----------------------------------------------------------------------------
(* write!(f, "{:.2} {}", size, name): fixed notation with two fractional  *)
(* digits of the exact value of the f32, rounded to nearest, ties to even *)

DigitChar(d) == <<"0", "1", "2", "3", "4", "5", "6", "7", "8", "9">>[d + 1]

RECURSIVE DecDigits(_)
\* the decimal digits of an integer n >= 0, most significant first
DecDigits(n) == IF n < 10 THEN <<n>>
                ELSE Append(DecDigits(n \div 10), n % 10)

RECURSIVE DoubleFrom(_, _, _)
\* 2 * (the decimal number ds[1..i]) + c, as decimal digits, for c in 0..1
DoubleFrom(ds, i, c) ==
    IF i = 0 THEN (IF c = 0 THEN <<>> ELSE <<c>>)
    ELSE Append(DoubleFrom(ds, i - 1, (2 * ds[i] + c) \div 10),
                (2 * ds[i] + c) % 10)

Double(ds) == DoubleFrom(ds, Len(ds), 0)

RECURSIVE Shl(_, _)
\* the decimal digits of (the number ds) * 2^k
Shl(ds, k) == IF k = 0 THEN ds ELSE Shl(Double(ds), k - 1)

\* a variant that truncates instead of rounding
Hundredths_trunc(x) ==
    LET c == Canon(100 * x.m, x.e)
        k == 0 - c.e
    IN  IF c.e >= 0 THEN c.m * Pow2(c.e)
        ELSE IF k <= 30 THEN c.m \div Pow2(k)
        ELSE 0

\* the value x of an f32 with negative exponent, in hundredths:
\* 100 * x rounded to nearest integer, ties to even
Hundredths(x) ==
    LET c == Canon(100 * x.m, x.e)
        k == 0 - c.e
    IN  IF c.e >= 0 THEN c.m * Pow2(c.e)
        ELSE IF k <= 30
             THEN LET D  == Pow2(k)
                      fl == c.m \div D
                      r  == c.m % D
                  IN  IF 2 * r > D \/ (2 * r = D /\ fl % 2 = 1)
                      THEN fl + 1 ELSE fl
        ELSE IF k = 31 /\ c.m > Pow2(30) THEN 1
        ELSE 0

Chars(ds) == [i \in 1..Len(ds) |-> DigitChar(ds[i])]

Fixed2(x) ==
    IF x.e >= 0
    THEN Chars(Shl(DecDigits(x.m), x.e)) \o <<".", "0", "0">>
    ELSE LET h == Hundredths(x)
         IN  Chars(DecDigits(h \div 100))
             \o <<".", DigitChar((h % 100) \div 10), DigitChar(h % 10)>>

StrChars(n) == IF n = "KB" THEN <<"K", "B">>
               ELSE IF n = "MB" THEN <<"M", "B">>
               ELSE <<"G", "B">>

RECURSIVE DivFrom(_, _, _)
\* long division of the numeral b[1..i] by d: [q |-> quotient bits, r |-> rest]
DivFrom(b, i, d) ==
    IF i = 0 THEN [q |-> <<>>, r |-> 0]
    ELSE LET p == DivFrom(b, i - 1, d)
             r == 2 * p.r + b[i]
         IN  IF r >= d THEN [q |-> Append(p.q, 1), r |-> r - d]
             ELSE [q |-> IF p.q = <<>> THEN <<>> ELSE Append(p.q, 0), r |-> r]

\* u64 division b / d for an integer 0 < d <= 2^30
DivU64(b, d) == DivFrom(b, Len(b), d).q

\* a variant that divides the integers before converting to f32
Display_fmt_intdiv(sz, F) ==
    Fixed2(AsF32(DivU64(sz, divisor(F, sz)))) \o <<" ">> \o StrChars(name(F, sz))

\* a variant whose format string lacks the separator
Display_fmt_nospace(sz, F) ==
    LET d == AsF32(Bits(divisor(F, sz)))
        q == F32Div(AsF32(sz), d)
    IN  Fixed2(q) \o StrChars(name(F, sz))

\* impl Display for ByteSizeFormatter<F>: fmt(&self, f)
Display_fmt(sz, F) ==
    LET d == AsF32(Bits(divisor(F, sz)))
        q == F32Div(AsF32(sz), d)
    IN  Fixed2(q) \o <<" ">> \o StrChars(name(F, sz))

----------------------------------------------------------------------------
(* The sizes the callers pass: every size up to MaxSmall, the             *)
(* neighbourhood of every threshold of both families, the rounding cases  *)
(* of the documentation, and the top of the u64 range                     *)

Near(t) == {t + d : d \in (0 - Delta)..Delta}

SmallSizes ==
    (0..MaxSmall)
    \cup Near(1000) \cup Near(1024)
    \cup Near(1000000) \cup Near(1048576)
    \cup Near(1000000000) \cup Near(1073741824)
    \cup Near(16777216)
    \cup {128, 384, 1005, 1015, 1500, 492752310, 1234567890}

LargeSizes ==
    {Join(1, d, 31) : d \in 0..Delta}                      \* 2^31 + d
    \cup {Join(3, d, 31) : d \in 0..Delta}                 \* 3 * 2^31 + d
    \cup {Ones(33) \o Pad(2147483647 - d, 31) : d \in 0..Delta}  \* 2^64-1-d
    \cup {<<1>> \o Zeros(40), <<1>> \o Zeros(63)}          \* 2^40, 2^63

Sizes == {Bits(n) : n \in SmallSizes} \cup LargeSizes

----------------------------------------------------------------------------
(* The program: a caller builds a formatter, renders it, drops it *)

Init ==
    /\ live = FALSE
    /\ size = <<>>
    /\ fmt = "Conventional"
    /\ outs = <<>>

\* impl FmtSize for u64: fmt_size(self, fmt) -> ByteSizeFormatter<F>
fmt_size(s, F) ==
    /\ ~live
    /\ live' = TRUE
    /\ size' = s
    /\ fmt' = F
    /\ outs' = <<>>

\* a variant that scales the captured size in place while rendering
to_string_scaling ==
    /\ live
    /\ Len(outs) < MaxRenders
    /\ outs' = Append(outs, Display_fmt(size, fmt))
    /\ size' = DivU64(size, divisor(fmt, size))
    /\ UNCHANGED <<live, fmt>>

\* ToString::to_string(&self), by way of Display::fmt(&self, f)
to_string ==
    /\ live
    /\ Len(outs) < MaxRenders
    /\ outs' = Append(outs, Display_fmt(size, fmt))
    /\ UNCHANGED <<live, size, fmt>>

\* the formatter goes out of scope
drop ==
    /\ live
    /\ live' = FALSE
    /\ size' = <<>>
    /\ fmt' = "Conventional"
    /\ outs' = <<>>

Next ==
    \/ \E s \in Sizes, F \in Strategies : fmt_size(s, F)
    \/ to_string
    \/ drop

Spec == Init /\ [][Next]_vars

----------------------------------------------------------------------------
(* Vocabulary of the properties *)

\* the last k characters of a string
Suffix(o, k) == SubSeq(o, Len(o) - k + 1, Len(o))

Digits == {DigitChar(d) : d \in 0..9}

CharVal(c) == CHOOSE d \in 0..9 : DigitChar(d) = c

RECURSIVE DecimalOf(_)
\* the decimal numeral of a u64, independently of ToInt: Horner on the bits
DecimalOf(b) ==
    IF b = <<>> THEN <<0>>
    ELSE LET t == DecimalOf(SubSeq(b, 1, Len(b) - 1))
         IN  IF t = <<0>> THEN <<b[Len(b)]>>
             ELSE DoubleFrom(t, Len(t), b[Len(b)])

\* the number of decimal digits of a u64 (0 has one)
DecLen(b) == Len(DecimalOf(b))

\* <digits>.<2 digits><space><KB|MB|GB>
WellShaped(o) ==
    /\ Len(o) >= 7
    /\ Suffix(o, 3) \in {<<" ", "K", "B">>, <<" ", "M", "B">>, <<" ", "G", "B">>}
    /\ o[Len(o) - 5] = "."
    /\ o[Len(o) - 4] \in Digits
    /\ o[Len(o) - 3] \in Digits
    /\ \A i \in 1..(Len(o) - 6) : o[i] \in Digits

RECURSIVE DigitsVal(_)
DigitsVal(cs) == IF cs = <<>> THEN 0
                 ELSE 10 * DigitsVal(SubSeq(cs, 1, Len(cs) - 1))
                      + CharVal(cs[Len(cs)])

\* the number a well-shaped string shows, in hundredths
ShownHundredths(o) ==
    DigitsVal(SubSeq(o, 1, Len(o) - 6) \o SubSeq(o, Len(o) - 4, Len(o) - 3))

Abs(x) == IF x < 0 THEN 0 - x ELSE x

\* o shows s / d to the nearest hundredth (s < 2^24, so s as f32 is exact)
NearestHundredth(o, s, d) ==
    2 * Abs(ShownHundredths(o) * d - 100 * s) <= d

Rendered == live /\ outs # <<>>

----------------------------------------------------------------------------
(* C1: for every size and each strategy, name and divisor come from the   *)
(* same bucket: name = "KB" exactly when divisor is the strategy's        *)
(* kilobyte threshold, "MB" exactly when the megabyte threshold, "GB"     *)
(* exactly when the gigabyte threshold.  (Fails for Decimal.)             *)
C1_SameBucket ==
    live =>
        LET d == divisor(fmt, size)
            n == name(fmt, size)
            K == IF fmt = "Conventional" THEN conventional_KILOBYTE
                 ELSE decimal_KILOBYTE
            M == IF fmt = "Conventional" THEN conventional_MEGABYTE
                 ELSE decimal_MEGABYTE
            G == IF fmt = "Conventional" THEN conventional_GIGABYTE
                 ELSE decimal_GIGABYTE
        IN  /\ (n = "KB") <=> (d = K)
            /\ (n = "MB") <=> (d = M)
            /\ (n = "GB") <=> (d = G)

(* C2: a size rendered with Decimal ends in " KB" below 10^6, in " MB"    *)
(* from 10^6 below 10^9, and in " GB" from 10^9 on.  (Fails: the label    *)
(* switches at 2^20 and 2^30.)                                            *)
C2_DecimalLabels ==
    (Rendered /\ fmt = "Decimal") =>
        \A i \in 1..Len(outs) :
            Suffix(outs[i], 3) =
                IF DecLen(size) <= 6 THEN <<" ", "K", "B">>
                ELSE IF DecLen(size) <= 9 THEN <<" ", "M", "B">>
                ELSE <<" ", "G", "B">>

(* C3: Conventional buckets by binary thresholds with half-open           *)
(* boundaries: (2^10, "KB") below 2^20, (2^20, "MB") from 2^20 below      *)
(* 2^30, (2^30, "GB") from 2^30 up to 2^64-1, and the rendered string     *)
(* ends in a space and that label.  A u64 is below 2^k exactly when its   *)
(* binary numeral has at most k bits.                                     *)
C3_ConventionalBuckets ==
    (live /\ fmt = "Conventional") =>
        LET d == divisor(fmt, size)
            n == name(fmt, size)
        IN  /\ Len(size) <= 20 => (d = 1024 /\ n = "KB")
            /\ (Len(size) > 20 /\ Len(size) <= 30) => (d = 1048576 /\ n = "MB")
            /\ Len(size) > 30 => (d = 1073741824 /\ n = "GB")
            /\ \A i \in 1..Len(outs) :
                   Suffix(outs[i], 3) = <<" ">> \o StrChars(n)

C3_Witness ==
    /\ Rendered /\ fmt = "Conventional"
    /\ size = Ones(64)
    /\ Suffix(outs[1], 3) = <<" ", "G", "B">>

(* C4: Decimal.divisor is 1000 below 10^6, 10^6 from 10^6 below 10^9 and  *)
(* 10^9 from 10^9 on: never zero, never a binary threshold.  A u64 is     *)
(* below 10^k exactly when its decimal numeral has at most k digits.      *)
C4_DecimalDivisor ==
    (live /\ fmt = "Decimal") =>
        LET d == divisor(fmt, size)
        IN  /\ DecLen(size) <= 6 => d = 1000
            /\ (DecLen(size) > 6 /\ DecLen(size) <= 9) => d = 1000000
            /\ DecLen(size) > 9 => d = 1000000000
            /\ d > 0
            /\ d \notin {1024, 1048576, 1073741824}

C4_Witness ==
    /\ live /\ fmt = "Decimal"
    /\ size = Bits(1048576)
    /\ divisor(fmt, size) = 1000000

(* C5: a rendered string is the value size / divisor(size) with exactly   *)
(* two fractional digits, one space, then name(size); a size equal to a   *)
(* Conventional threshold renders as 1.00 in that bucket's unit, and      *)
(* 1_048_576 with Conventional renders exactly "1.00 MB".                 *)
C5_RenderedValue ==
    Rendered =>
        \A i \in 1..Len(outs) :
            LET o == outs[i]
            IN  /\ WellShaped(o)
                /\ Suffix(o, 3) = <<" ">> \o StrChars(name(fmt, size))
                /\ Len(size) <= 24 =>
                       NearestHundredth(o, ToInt(size), divisor(fmt, size))
                /\ fmt = "Conventional" =>
                       /\ size = Bits(1024) =>
                              o = <<"1", ".", "0", "0", " ", "K", "B">>
                       /\ size = Bits(1048576) =>
                              o = <<"1", ".", "0", "0", " ", "M", "B">>
                       /\ size = Bits(1073741824) =>
                              o = <<"1", ".", "0", "0", " ", "G", "B">>

C5_Witness ==
    /\ Rendered /\ fmt = "Conventional"
    /\ size = Bits(1048576)
    /\ outs[1] = <<"1", ".", "0", "0", " ", "M", "B">>

(* C6: the value is rounded to the nearest hundredth, not truncated:      *)
(* 492_752_310 with Conventional renders exactly "469.93 MB".             *)
C6_RoundedNotTruncated ==
    (Rendered /\ fmt = "Conventional" /\ size = Bits(492752310)) =>
        \A i \in 1..Len(outs) :
            outs[i] = <<"4", "6", "9", ".", "9", "3", " ", "M", "B">>

C6_Witness ==
    /\ Rendered /\ fmt = "Conventional"
    /\ size = Bits(492752310)
    /\ ShownHundredths(outs[1]) = 46993

(* C7: there is no plain-bytes tier: every size below the kilobyte        *)
(* threshold, 0 included, is rendered in KB as a fraction of the kilobyte *)
(* divisor; 0 with Conventional renders exactly "0.00 KB"; no divisor is  *)
(* zero for any size.                                                     *)
C7_NoBytesTier ==
    live =>
        LET K == IF fmt = "Conventional" THEN 1024 ELSE 1000
            below == IF fmt = "Conventional" THEN Len(size) <= 10
                     ELSE DecLen(size) <= 3
        IN  /\ divisor(fmt, size) # 0
            /\ below =>
                /\ divisor(fmt, size) = K
                /\ name(fmt, size) = "KB"
                /\ \A i \in 1..Len(outs) :
                       /\ Suffix(outs[i], 3) = <<" ", "K", "B">>
                       /\ NearestHundredth(outs[i], ToInt(size), K)
                       /\ ShownHundredths(outs[i]) <= 100
            /\ (fmt = "Conventional" /\ size = <<>>) =>
                   \A i \in 1..Len(outs) :
                       outs[i] = <<"0", ".", "0", "0", " ", "K", "B">>

C7_Witness ==
    /\ Rendered /\ fmt = "Conventional"
    /\ size = <<>>
    /\ outs[1] = <<"0", ".", "0", "0", " ", "K", "B">>

C9_Total ==
    live =>
        /\ Display_fmt(size, fmt) # <<>>
        /\ WellShaped(Display_fmt(size, fmt))
        /\ \A i \in 1..Len(outs) : outs[i] # <<>> /\ WellShaped(outs[i])

C9_Witness ==
    /\ Rendered /\ fmt = "Decimal"
    /\ size = Ones(64)
    /\ outs[1] = <<"1", "8", "4", "4", "6", "7", "4", "3", "5", "5", "2",
                   ".", "0", "0", " ", "G", "B">>

====
